---- MODULE Spec2Model ----
(***************************************************************************)
(* A state-machine model of pympress' user interface (src/pympress/ui.py). *)
(*                                                                         *)
(* The class UI owns the presentation state (timer, pause, fullscreen and  *)
(* notes-mode flags, the digit buffer of the page jump) and drives two     *)
(* collaborators of the same package whose code is not part of ui.py: the  *)
(* Document (page cursor, goto with clamping) and the PixbufCache (per     *)
(* widget type, size and cached pixbufs).  Both are modelled from their    *)
(* documented contract; everything else is translated from ui.py.          *)
(*                                                                         *)
(* Every handler is a function from a state record to a state record, so  *)
(* that handlers can call each other as the code does (switch_mode calls   *)
(* on_page_change, which calls on_expose three times and then prerenders). *)
(* An exception raised inside a handler is the field "raised": once set,   *)
(* the remaining statements of the handler are skipped, as in Python, and  *)
(* the toolkit's callback boundary swallows it.                            *)
(***************************************************************************)
EXTENDS Integers, Sequences, FiniteSets, TLC

(***************************************************************************)
(* Program constants.                                                      *)
(***************************************************************************)
PDF_REGULAR == 0
PDF_CONTENT_PAGE == 1
PDF_NOTES_PAGE == 2
\* gobject.timeout_add(250, self.update_time): the tick period, in ms
TickInterval == 250
\* select_page: "diff >= 0 and diff < 1000", in ms
DigitTimeout == 1000
\* on_page_change: page_max = min(pages_number, cur + 5)
PrerenderAhead == 5
\* on_page_change: page_min = max(0, cur - 2)
PrerenderBehind == 2

(***************************************************************************)
(* Bounds of the model.                                                    *)
(***************************************************************************)
\* documents of 1..MaxPages pages in the main specification
MaxPages == 2
\* widget sizes are the non-square sizes of (1..MaxDim) x (1..MaxDim)
MaxDim == 2
\* the reading of the clock (ms) when the UI is constructed; any value > 0
Epoch == 1000
\* digits the user can type, 1..MaxDigit, and the longest buffer explored
MaxDigit == 3
MaxBuffer == 3
\* page count of the document in the navigation specification
NavPages == 16
\* quiet periods (in ticks) and their number, per timed specification
JumpQuietTicks == 2
JumpMaxQuiet == 4
TimerQuietTicks == 20
TimerMaxQuiet == 4

Widgets == {"c_da", "p_da_cur", "p_da_next"}
\* the commands set_screensaver gives to os.system
Commands == {"xdg-screensaver", "xset"}
Sizes == {size \in (1..MaxDim) \X (1..MaxDim) : size[1] # size[2]}
\* "no value": an unrealized widget's window, an unknown size
None == <<>>

VARIABLES
    \* ---- Document
    nb_pages,        \* doc.pages_number()
    links,           \* page number -> None, or <<dest>>: a link over the left
                     \* half of the page
    cur_page,        \* doc.current_page().number()
    \* ---- UI
    start_time,      \* 0: the counter was never started (ms otherwise)
    delta,           \* elapsed time as last computed by update_time
    paused,
    fullscreen,
    notes_mode,
    s_go_page_num,   \* sequence of typed digits
    old_event_time,  \* None stands for -sys.maxint (no event yet), else <<t>>
    eb_child,        \* "label_cur" or "entry_cur": child of eb_cur
    entry_text,      \* text of entry_cur, a sequence of characters
    label_cur,       \* markup of label_cur
    label_next,      \* markup of label_next
    dpms_was_enabled, \* None until set_screensaver assigns it, else <<b>>
    \* ---- PixbufCache
    pixbuf_type,     \* widget name -> page type
    pixbuf_size,     \* widget name -> None or <<w, h>>
    pixbuf_cache,    \* widget name -> (page number -> pixbuf)
    \* ---- toolkit
    window,          \* widget name -> None (not realized) or its size <<w, h>>
    screen,          \* widget name -> set holding the page (number and type)
                     \* the window shows, empty before the first drawing
    now,             \* the clock, in ms
    last_tick,       \* when update_time last ran as the periodic tick
    quiet,           \* number of quiet periods elapsed
    cursor,          \* widget name -> "HAND2" or "default"
    \* ---- operating system
    os_name,         \* os.name
    os_status,       \* command -> the exit status os.system gets from it
    os_dpms,         \* "Enabled" or "Disabled": what "xset q" reports
    os_screensaver,  \* "suspend" or "resume": the last request that succeeded
    timers,          \* number of periodic timeouts the main loop holds
    \* ---- what the last handler did (reset when a handler starts)
    os_calls,        \* commands given to os.system, in order
    calls,           \* redraws and prefetch requests of the handler, in order
    hidden,          \* widgets hidden with hide_all
    raised,          \* an exception left the handler
    rendered,        \* <<widget, page>> pairs given to render_cairo
    drawn,           \* widget name -> set holding the pixbuf on_expose used
    prerendered,     \* page numbers given to cache.prerender, in order
    goto_args        \* arguments given to doc.goto, in order

vars == << nb_pages, links, cur_page, dpms_was_enabled, cursor, os_name,
           os_status, os_dpms, os_screensaver, start_time, delta, paused, fullscreen,
           notes_mode, s_go_page_num, old_event_time, eb_child, entry_text,
           label_cur, label_next, pixbuf_type, pixbuf_size, pixbuf_cache,
           window, screen, now, last_tick, quiet, raised, rendered, drawn,
           prerendered, goto_args, timers, os_calls, calls, hidden >>

\* The current state as a record.
St ==
    [ nb_pages |-> nb_pages, links |-> links, cur_page |-> cur_page,
      dpms_was_enabled |-> dpms_was_enabled, cursor |-> cursor,
      os_name |-> os_name, os_status |-> os_status, os_dpms |-> os_dpms,
      os_screensaver |-> os_screensaver,
      start_time |-> start_time, delta |-> delta, paused |-> paused,
      fullscreen |-> fullscreen, notes_mode |-> notes_mode,
      s_go_page_num |-> s_go_page_num, old_event_time |-> old_event_time,
      eb_child |-> eb_child, entry_text |-> entry_text,
      label_cur |-> label_cur, label_next |-> label_next,
      pixbuf_type |-> pixbuf_type, pixbuf_size |-> pixbuf_size,
      pixbuf_cache |-> pixbuf_cache, window |-> window, screen |-> screen,
      now |-> now, last_tick |-> last_tick, quiet |-> quiet,
      raised |-> raised, rendered |-> rendered, drawn |-> drawn,
      prerendered |-> prerendered, goto_args |-> goto_args,
      timers |-> timers, os_calls |-> os_calls, calls |-> calls,
      hidden |-> hidden ]

\* The next state is the record r.
Apply(r) ==
    /\ nb_pages' = r.nb_pages            /\ cur_page' = r.cur_page
    /\ links' = r.links                  /\ cursor' = r.cursor
    /\ dpms_was_enabled' = r.dpms_was_enabled
    /\ os_name' = r.os_name              /\ os_status' = r.os_status
    /\ os_dpms' = r.os_dpms              /\ os_screensaver' = r.os_screensaver
    /\ start_time' = r.start_time        /\ delta' = r.delta
    /\ paused' = r.paused                /\ fullscreen' = r.fullscreen
    /\ notes_mode' = r.notes_mode        /\ s_go_page_num' = r.s_go_page_num
    /\ old_event_time' = r.old_event_time
    /\ eb_child' = r.eb_child            /\ entry_text' = r.entry_text
    /\ label_cur' = r.label_cur          /\ label_next' = r.label_next
    /\ pixbuf_type' = r.pixbuf_type      /\ pixbuf_size' = r.pixbuf_size
    /\ pixbuf_cache' = r.pixbuf_cache    /\ window' = r.window
    /\ screen' = r.screen                /\ now' = r.now
    /\ last_tick' = r.last_tick          /\ quiet' = r.quiet
    /\ raised' = r.raised                /\ rendered' = r.rendered
    /\ drawn' = r.drawn                  /\ prerendered' = r.prerendered
    /\ goto_args' = r.goto_args          /\ timers' = r.timers
    /\ os_calls' = r.os_calls
    /\ calls' = r.calls
    /\ hidden' = r.hidden

\* The state is the record r.
Is(r) ==
    /\ nb_pages = r.nb_pages            /\ cur_page = r.cur_page
    /\ links = r.links                  /\ cursor = r.cursor
    /\ dpms_was_enabled = r.dpms_was_enabled
    /\ os_name = r.os_name              /\ os_status = r.os_status
    /\ os_dpms = r.os_dpms              /\ os_screensaver = r.os_screensaver
    /\ start_time = r.start_time        /\ delta = r.delta
    /\ paused = r.paused                /\ fullscreen = r.fullscreen
    /\ notes_mode = r.notes_mode        /\ s_go_page_num = r.s_go_page_num
    /\ old_event_time = r.old_event_time
    /\ eb_child = r.eb_child            /\ entry_text = r.entry_text
    /\ label_cur = r.label_cur          /\ label_next = r.label_next
    /\ pixbuf_type = r.pixbuf_type      /\ pixbuf_size = r.pixbuf_size
    /\ pixbuf_cache = r.pixbuf_cache    /\ window = r.window
    /\ screen = r.screen                /\ now = r.now
    /\ last_tick = r.last_tick          /\ quiet = r.quiet
    /\ raised = r.raised                /\ rendered = r.rendered
    /\ drawn = r.drawn                  /\ prerendered = r.prerendered
    /\ goto_args = r.goto_args          /\ timers = r.timers
    /\ os_calls = r.os_calls
    /\ calls = r.calls
    /\ hidden = r.hidden

\* A handler starts: nothing has been raised, rendered, drawn or requested.
Begin(s) ==
    [s EXCEPT !.raised = FALSE, !.rendered = {},
              !.drawn = [w \in Widgets |-> {}],
              !.prerendered = <<>>, !.goto_args = <<>>, !.os_calls = <<>>,
              !.calls = <<>>]

Min(a, b) == IF a < b THEN a ELSE b
Max(a, b) == IF a > b THEN a ELSE b

\* Python's range(a, b) and range(a, b, -1), as sequences.
range(a, b) == [i \in 1..(IF b > a THEN b - a ELSE 0) |-> a + i - 1]
range_down(a, b) == [i \in 1..(IF a > b THEN a - b ELSE 0) |-> a - i + 1]

\* time.time(), in ms
time_time(s) == s.now

(***************************************************************************)
(* PixbufCache (pympress.pixbufcache), from its contract.                  *)
(***************************************************************************)
\* The pixbuf of page nb rendered as wtype at size.
Pixbuf(nb, wtype, size) == [nb |-> nb, wtype |-> wtype, w |-> size[1], h |-> size[2]]

\* cache.get(name, nb): the set holding the cached pixbuf, empty on a miss.
\* An entry is returned only while it matches the widget's current size.
cache_get(s, name, nb) ==
    IF /\ nb \in DOMAIN s.pixbuf_cache[name]
       /\ s.pixbuf_size[name] # None
       /\ s.pixbuf_cache[name][nb].w = s.pixbuf_size[name][1]
       /\ s.pixbuf_cache[name][nb].h = s.pixbuf_size[name][2]
    THEN {s.pixbuf_cache[name][nb]}
    ELSE {}

cache_get_widget_type(s, name) == s.pixbuf_type[name]

\* cache.set(name, nb, pb)
cache_set(s, name, nb, pb) ==
    [s EXCEPT !.pixbuf_cache[name] =
        [p \in DOMAIN @ \cup {nb} |-> IF p = nb THEN pb ELSE @[p]]]

\* cache.resize_widget(name, width, height): a new size drops every entry of
\* the widget; the same size changes nothing.
cache_resize_widget(s, name, width, height) ==
    IF s.pixbuf_size[name] = <<width, height>>
    THEN s
    ELSE [s EXCEPT !.pixbuf_size[name] = <<width, height>>,
                   !.pixbuf_cache[name] = <<>>]

\* cache.set_widget_type(name, wtype): a new type drops every entry of the
\* widget; the same type changes nothing.
cache_set_widget_type(s, name, wtype) ==
    IF s.pixbuf_type[name] = wtype
    THEN s
    ELSE [s EXCEPT !.pixbuf_type[name] = wtype,
                   !.pixbuf_cache[name] = <<>>]

\* cache.prerender(page_nb): every widget of known size with no valid entry
\* for the page gets one, rendered at the widget's recorded type and size.
cache_prerender(s, page_nb) ==
    [s EXCEPT !.pixbuf_cache =
        [w \in Widgets |->
            IF s.pixbuf_size[w] = None \/ cache_get(s, w, page_nb) # {}
            THEN @[w]
            ELSE [p \in DOMAIN @[w] \cup {page_nb} |->
                    IF p = page_nb
                    THEN Pixbuf(page_nb, s.pixbuf_type[w], s.pixbuf_size[w])
                    ELSE @[w][p]]]]

(***************************************************************************)
(* UI: rendering.                                                          *)
(***************************************************************************)
\* render_page(page, widget, wtype): nothing for an unrealized widget, else
\* the page is rendered on the window at the window's size.
render_page(s, nb, widget, wtype) ==
    IF s.window[widget] = None
    THEN s
    ELSE [s EXCEPT !.screen[widget] = {[nb |-> nb, wtype |-> wtype]},
                   !.rendered = @ \cup {<<widget, nb>>}]

\* on_expose(widget): all three widgets show the current page.  On a miss the
\* page is rendered, the window is read back into a pixbuf and the pixbuf is
\* cached; widget.window.get_size() raises for an unrealized widget.  On a hit
\* the cached pixbuf is drawn.
\* the page the document is on: a one-element tuple, or None
doc_current_page(s) == <<s.cur_page>>

\* faulty variant: a missed pixbuf is drawn but not stored
on_expose_draw_NoStore(s, widget, nb) ==
    LET pb == cache_get(s, widget, nb)
        wtype == cache_get_widget_type(s, widget)
    IN  IF pb = {}
        THEN LET s1 == render_page(s, nb, widget, wtype)
             IN  IF s1.window[widget] = None
                 THEN [s1 EXCEPT !.raised = TRUE]
                 ELSE LET shown == CHOOSE x \in s1.screen[widget] : TRUE
                          got == Pixbuf(shown.nb, shown.wtype, s1.window[widget])
                      IN  [s1 EXCEPT !.drawn[widget] = {got}]
        ELSE IF s.window[widget] = None
             THEN [s EXCEPT !.raised = TRUE]
             ELSE [s EXCEPT !.screen[widget] =
                               {[nb |-> x.nb, wtype |-> x.wtype] : x \in pb},
                            !.drawn[widget] = pb]

\* the second half of on_expose: the pixbuf of page nb from the cache, or a
\* rendering of the page that is then read back from the window and stored
on_expose_draw(s, widget, nb) ==
    LET pb == cache_get(s, widget, nb)
        wtype == cache_get_widget_type(s, widget)
    IN  IF pb = {}
        THEN LET s1 == render_page(s, nb, widget, wtype)
             IN  IF s1.window[widget] = None
                 THEN [s1 EXCEPT !.raised = TRUE]
                 ELSE LET shown == CHOOSE x \in s1.screen[widget] : TRUE
                          got == Pixbuf(shown.nb, shown.wtype, s1.window[widget])
                          s2 == cache_set(s1, widget, nb, got)
                      IN  [s2 EXCEPT !.drawn[widget] = {got}]
        ELSE IF s.window[widget] = None
             THEN [s EXCEPT !.raised = TRUE]
             ELSE [s EXCEPT !.screen[widget] =
                               {[nb |-> x.nb, wtype |-> x.wtype] : x \in pb},
                            !.drawn[widget] = pb]

\* faulty variant: the next-slide widget looks one page ahead and hides at
\* the end of the document
on_expose_Lookahead(s, widget) ==
    IF s.raised THEN s
    ELSE
    LET s0 == [s EXCEPT !.calls = Append(@, <<"on_expose", widget>>)]
        page == IF widget \in {"c_da", "p_da_cur"} THEN doc_current_page(s0)
                ELSE IF s0.cur_page + 1 < s0.nb_pages
                     THEN <<s0.cur_page + 1>> ELSE None
    IN  IF widget \notin {"c_da", "p_da_cur"} /\ page = None
        THEN [s0 EXCEPT !.hidden = @ \cup {widget}]
        ELSE on_expose_draw(
                 IF widget \in {"c_da", "p_da_cur"} THEN s0
                 ELSE [s0 EXCEPT !.hidden = @ \ {widget}],
                 widget, page[1])

on_expose(s, widget) ==
    IF s.raised THEN s
    ELSE
    LET s0 == [s EXCEPT !.calls = Append(@, <<"on_expose", widget>>)]
        page == doc_current_page(s0)
    IN  IF widget \notin {"c_da", "p_da_cur"} /\ page = None
        THEN [s0 EXCEPT !.hidden = @ \cup {widget}]
        ELSE on_expose_draw(
                 IF widget \in {"c_da", "p_da_cur"} THEN s0
                 ELSE [s0 EXCEPT !.hidden = @ \ {widget}],
                 widget, page[1])

\* faulty variant of on_configure: every widget is given the new size
on_configure_All(s, widget, width, height) ==
    cache_resize_widget(
        cache_resize_widget(
            cache_resize_widget(s, "c_da", width, height),
            "p_da_cur", width, height),
        "p_da_next", width, height)

\* faulty variant of on_configure: width and height exchanged
on_configure_Swapped(s, widget, width, height) ==
    cache_resize_widget(s, widget, height, width)

\* faulty variant of on_configure: the cache is not told of the new size
on_configure_Forget(s, widget, width, height) == s

\* on_configure(widget, event): the cache learns the widget's new size.
on_configure(s, widget, width, height) ==
    cache_resize_widget(s, widget, width, height)

(***************************************************************************)
(* Text: strings are sequences of one-character strings.                   *)
(***************************************************************************)
DigitChars == <<"0", "1", "2", "3", "4", "5", "6", "7", "8", "9">>
IsDigitChar(c) == \E i \in 1..Len(DigitChars) : DigitChars[i] = c
DigitVal(c) == (CHOOSE i \in 1..Len(DigitChars) : DigitChars[i] = c) - 1

\* str.isdigit(): not empty, and digits only
isdigit(str) == Len(str) > 0 /\ \A i \in 1..Len(str) : IsDigitChar(str[i])

\* the value of a string of digits
RECURSIVE digits_value(_)
digits_value(str) ==
    IF Len(str) = 0 THEN 0
    ELSE 10 * digits_value(SubSeq(str, 1, Len(str) - 1)) + DigitVal(str[Len(str)])

\* int(str) raises ValueError unless str is an optional sign and digits
int_ok(str) ==
    IF Len(str) > 0 /\ str[1] \in {"-", "+"} THEN isdigit(Tail(str)) ELSE isdigit(str)
int(str) ==
    IF str[1] = "-" THEN 0 - digits_value(Tail(str))
    ELSE IF str[1] = "+" THEN digits_value(Tail(str))
    ELSE digits_value(str)

\* "%d" % n, for n >= 0
RECURSIVE format_d(_)
format_d(n) ==
    IF n < 10 THEN <<DigitChars[n + 1]>>
    ELSE format_d(n \div 10) \o <<DigitChars[(n % 10) + 1]>>

\* text.split('/')[0]: the text before the first '/'
RECURSIVE split_first(_)
split_first(text) ==
    IF Len(text) = 0 \/ text[1] = "/" THEN <<>>
    ELSE <<text[1]>> \o split_first(Tail(text))

(***************************************************************************)
(* UI: page labels.                                                        *)
(***************************************************************************)
\* restore_current_label(): eb_cur holds the label, not the entry
restore_current_label(s) ==
    IF s.eb_child # "label_cur" THEN [s EXCEPT !.eb_child = "label_cur"] ELSE s

\* faulty variant of update_page_numbers: the labels are set and the entry is
\* left where it is
update_page_numbers_NoRestore(s) ==
    LET cur_nb == s.cur_page
        cur == format_d(cur_nb + 1) \o <<"/">> \o format_d(s.nb_pages)
        next == IF cur_nb + 2 <= s.nb_pages
                THEN format_d(cur_nb + 1) \o <<"/">> \o format_d(s.nb_pages)
                ELSE <<"-", "-">>
    IN  [s EXCEPT !.label_cur = cur, !.label_next = next]

\* update_page_numbers(): "cur+1/total" on the current label; the next label
\* shows the same text, or "--" on the last page
update_page_numbers(s) ==
    LET cur_nb == s.cur_page
        cur == format_d(cur_nb + 1) \o <<"/">> \o format_d(s.nb_pages)
        next == IF cur_nb + 2 <= s.nb_pages
                THEN format_d(cur_nb + 1) \o <<"/">> \o format_d(s.nb_pages)
                ELSE <<"-", "-">>
    IN  restore_current_label([s EXCEPT !.label_cur = cur, !.label_next = next])

(***************************************************************************)
(* UI: page change.                                                        *)
(***************************************************************************)
\* the pages on_page_change hands to cache.prerender, in order
PrerenderPages(cur, pages_number) ==
    LET page_max == Min(pages_number, cur + PrerenderAhead)
        page_min == Max(0, cur - PrerenderBehind)
    IN  range(cur + 1, page_max) \o range_down(cur, page_min)

\* for p in pages: self.cache.prerender(p)
RECURSIVE prerender_loop(_, _)
prerender_loop(s, pages) ==
    IF Len(pages) = 0 THEN s
    ELSE prerender_loop(
            cache_prerender([s EXCEPT !.prerendered = Append(@, Head(pages)),
                                      !.calls = Append(@, <<"prerender", Head(pages)>>)],
                            Head(pages)),
            Tail(pages))

\* faulty variant of on_page_change: the neighbouring pages are prerendered
\* before the widgets are drawn
on_page_change_PrefetchFirst(s, unpause) ==
    LET s1 == IF unpause
              THEN [s EXCEPT !.paused = FALSE,
                             !.start_time = IF @ = 0 THEN time_time(s) ELSE @]
              ELSE s
        s2 == update_page_numbers(s1)
        s3 == prerender_loop(s2, PrerenderPages(s2.cur_page, s2.nb_pages))
        s4 == on_expose(s3, "c_da")
        s5 == on_expose(s4, "p_da_cur")
    IN  on_expose(s5, "p_da_next")

\* faulty variant of on_page_change: every page change restarts the counter
on_page_change_Restart(s, unpause) ==
    LET s1 == IF unpause
              THEN [s EXCEPT !.paused = FALSE, !.start_time = time_time(s)]
              ELSE s
        s2 == update_page_numbers(s1)
        s3 == on_expose(s2, "c_da")
        s4 == on_expose(s3, "p_da_cur")
        s5 == on_expose(s4, "p_da_next")
    IN  IF s5.raised THEN s5
        ELSE prerender_loop(s5, PrerenderPages(s5.cur_page, s5.nb_pages))

\* faulty variant of on_page_change: an unpausing page change never sets
\* start_time
on_page_change_NoStart(s, unpause) ==
    LET s1 == IF unpause THEN [s EXCEPT !.paused = FALSE] ELSE s
        s2 == update_page_numbers(s1)
        s3 == on_expose(s2, "c_da")
        s4 == on_expose(s3, "p_da_cur")
        s5 == on_expose(s4, "p_da_next")
    IN  IF s5.raised THEN s5
        ELSE prerender_loop(s5, PrerenderPages(s5.cur_page, s5.nb_pages))

\* on_page_change(unpause): start the counter if asked to, update the labels,
\* draw the three widgets at once, then prerender the neighbouring pages.
on_page_change(s, unpause) ==
    LET s1 == IF unpause
              THEN [s EXCEPT !.paused = FALSE,
                             !.start_time = IF @ = 0 THEN time_time(s) ELSE @]
              ELSE s
        s2 == update_page_numbers(s1)
        s3 == on_expose(s2, "c_da")
        s4 == on_expose(s3, "p_da_cur")
        s5 == on_expose(s4, "p_da_next")
    IN  IF s5.raised THEN s5
        ELSE prerender_loop(s5, PrerenderPages(s5.cur_page, s5.nb_pages))

(***************************************************************************)
(* Document (pympress.document), from its contract: goto clamps its        *)
(* argument and does nothing when the page does not change.                *)
(***************************************************************************)

doc_goto(s, number) ==
    IF s.raised THEN s
    ELSE
    LET n == IF number < 0 THEN 0
             ELSE IF number >= s.nb_pages THEN s.nb_pages - 1
             ELSE number
        s1 == [s EXCEPT !.goto_args = Append(@, number)]
    IN  IF n # s.cur_page
        THEN on_page_change([s1 EXCEPT !.cur_page = n], TRUE)
        ELSE s1

doc_goto_next(s) == doc_goto(s, s.cur_page + 1)
doc_goto_prev(s) == doc_goto(s, s.cur_page - 1)
doc_goto_home(s) == doc_goto(s, 0)
doc_goto_end(s) == doc_goto(s, s.nb_pages - 1)

(***************************************************************************)
(* UI: page jump by digits, and by the entry.                              *)
(***************************************************************************)

\* faulty variant of select_page: a gap of exactly the timeout still appends
select_page_Inclusive(s, event, go) ==
    LET s1 == IF go
              THEN LET sg == IF isdigit(s.s_go_page_num)
                             THEN doc_goto(s, digits_value(s.s_go_page_num) - 1)
                             ELSE s
                   IN  IF sg.raised THEN sg
                       ELSE [sg EXCEPT !.s_go_page_num = <<>>]
              ELSE IF /\ s.old_event_time # None
                      /\ event.time - s.old_event_time[1] >= 0
                      /\ event.time - s.old_event_time[1] <= DigitTimeout
                   THEN [s EXCEPT !.s_go_page_num = @ \o event.string]
                   ELSE [s EXCEPT !.s_go_page_num = event.string]
    IN  IF s1.raised THEN s1
        ELSE [s1 EXCEPT !.old_event_time = <<event.time>>]

\* faulty variant of select_page: the typed number is taken as an index
select_page_OneBased(s, event, go) ==
    LET s1 == IF go
              THEN LET sg == IF isdigit(s.s_go_page_num)
                             THEN doc_goto(s, digits_value(s.s_go_page_num))
                             ELSE s
                   IN  IF sg.raised THEN sg
                       ELSE [sg EXCEPT !.s_go_page_num = <<>>]
              ELSE IF /\ s.old_event_time # None
                      /\ event.time - s.old_event_time[1] >= 0
                      /\ event.time - s.old_event_time[1] < DigitTimeout
                   THEN [s EXCEPT !.s_go_page_num = @ \o event.string]
                   ELSE [s EXCEPT !.s_go_page_num = event.string]
    IN  IF s1.raised THEN s1
        ELSE [s1 EXCEPT !.old_event_time = <<event.time>>]

\* select_page(event, go): "g" commits the typed number; a digit is appended
\* when it follows the previous event by less than the timeout, and starts
\* a new number otherwise.  old_event_time starts as -sys.maxint, which
\* makes the first diff larger than any timeout.
select_page(s, event, go) ==
    LET s1 == IF go
              THEN LET sg == IF isdigit(s.s_go_page_num)
                             THEN doc_goto(s, digits_value(s.s_go_page_num) - 1)
                             ELSE s
                   IN  IF sg.raised THEN sg
                       ELSE [sg EXCEPT !.s_go_page_num = <<>>]
              ELSE IF /\ s.old_event_time # None
                      /\ event.time - s.old_event_time[1] >= 0
                      /\ event.time - s.old_event_time[1] < DigitTimeout
                   THEN [s EXCEPT !.s_go_page_num = @ \o event.string]
                   ELSE [s EXCEPT !.s_go_page_num = event.string]
    IN  IF s1.raised THEN s1
        ELSE [s1 EXCEPT !.old_event_time = <<event.time>>]

\* faulty variant of on_label_event: the typed number goes to goto as it is
on_label_event_Unclamped(s, event) ==
    IF s.eb_child = "label_cur" /\ event.type = "BUTTON_PRESS"
    THEN [s EXCEPT !.entry_text = format_d(s.cur_page + 1) \o <<"/">>
                                  \o format_d(s.nb_pages),
                   !.eb_child = "entry_cur"]
    ELSE IF s.eb_child = "entry_cur" /\ event.type = "KEY_RELEASE"
    THEN IF event.name \in {"Return", "KP_Return"}
         THEN LET text == s.entry_text
                  s1 == restore_current_label(s)
                  str == split_first(text)
                  n0 == IF int_ok(str) THEN int(str) ELSE s.cur_page + 1
                  n == n0 - 1
              IN  IF n # s1.cur_page THEN doc_goto(s1, n) ELSE s1
         ELSE IF event.name = "Escape"
         THEN restore_current_label(s)
         ELSE s
    ELSE s

\* faulty variant of on_label_event: the whole text is parsed, not the part
\* before the first '/'
on_label_event_NoSplit(s, event) ==
    IF s.eb_child = "label_cur" /\ event.type = "BUTTON_PRESS"
    THEN [s EXCEPT !.entry_text = format_d(s.cur_page + 1) \o <<"/">>
                                  \o format_d(s.nb_pages),
                   !.eb_child = "entry_cur"]
    ELSE IF s.eb_child = "entry_cur" /\ event.type = "KEY_RELEASE"
    THEN IF event.name \in {"Return", "KP_Return"}
         THEN LET text == s.entry_text
                  s1 == restore_current_label(s)
                  n0 == IF int_ok(text) THEN int(text) ELSE s.cur_page + 1
                  n == n0 - 1
              IN  IF n # s1.cur_page
                  THEN doc_goto(s1, IF n <= 0 THEN 0
                                    ELSE IF n >= s1.nb_pages THEN s1.nb_pages - 1
                                    ELSE n)
                  ELSE s1
         ELSE IF event.name = "Escape"
         THEN restore_current_label(s)
         ELSE s
    ELSE s

\* on_label_event(event): a click on the label swaps it for the entry,
\* filled with "cur/total"; Return in the entry restores the label and goes
\* to the page typed before the first '/'; Escape restores the label.
on_label_event(s, event) ==
    IF s.eb_child = "label_cur" /\ event.type = "BUTTON_PRESS"
    THEN [s EXCEPT !.entry_text = format_d(s.cur_page + 1) \o <<"/">>
                                  \o format_d(s.nb_pages),
                   !.eb_child = "entry_cur"]
    ELSE IF s.eb_child = "entry_cur" /\ event.type = "KEY_RELEASE"
    THEN IF event.name \in {"Return", "KP_Return"}
         THEN LET text == s.entry_text
                  s1 == restore_current_label(s)
                  str == split_first(text)
                  n0 == IF int_ok(str) THEN int(str) ELSE s.cur_page + 1
                  n == n0 - 1
              IN  IF n # s1.cur_page
                  THEN doc_goto(s1, IF n <= 0 THEN 0
                                    ELSE IF n >= s1.nb_pages THEN s1.nb_pages - 1
                                    ELSE n)
                  ELSE s1
         ELSE IF event.name = "Escape"
         THEN restore_current_label(s)
         ELSE s
    ELSE s

(***************************************************************************)
(* UI: timer.                                                              *)
(***************************************************************************)
\* update_time(): the elapsed time is recomputed only while not paused
update_time(s) ==
    IF ~s.paused THEN [s EXCEPT !.delta = time_time(s) - s.start_time] ELSE s

\* faulty variant of switch_pause: resuming restarts the counter from zero
switch_pause_Restart(s) ==
    update_time(IF s.paused
                THEN [s EXCEPT !.start_time = time_time(s), !.paused = FALSE]
                ELSE [s EXCEPT !.paused = TRUE])

\* faulty variant of update_time's result: the timeout is kept only while the
\* timer runs
update_time_returns_Running(s) == ~s.paused

\* what update_time returns to the main loop: True keeps the timeout
update_time_returns(s) == TRUE

\* the periodic timeout fires: the main loop calls update_time and drops the
\* timeout unless it returns True
timeout_fires(s) ==
    IF s.timers > 0
    THEN LET r == update_time(s)
         IN  [r EXCEPT !.timers = IF update_time_returns(r) THEN @ ELSE @ - 1]
    ELSE s

\* switch_pause()
switch_pause(s) ==
    update_time(IF s.paused
                THEN [s EXCEPT !.start_time = time_time(s) - s.delta,
                               !.paused = FALSE]
                ELSE [s EXCEPT !.paused = TRUE])

\* reset_timer()
reset_timer(s) == update_time([s EXCEPT !.start_time = time_time(s)])

(***************************************************************************)
(* UI: modes.                                                              *)
(***************************************************************************)
\* os.system(command argument): the call is made; what it does to the system
\* depends on its status and is left to the caller
os_system(s, command, argument) ==
    [s EXCEPT !.os_calls = Append(@, <<command, argument>>)]

\* faulty variant of set_screensaver: nothing is remembered when DPMS is
\* found disabled
set_screensaver_NoElse(s, must_disable) ==
    IF s.os_name # "posix" THEN s
    ELSE IF s.window["c_da"] = None THEN [s EXCEPT !.raised = TRUE]
    ELSE
    LET cmd == IF must_disable THEN "suspend" ELSE "resume"
        s1 == os_system(s, "xdg-screensaver", cmd)
        s2 == IF s.os_status["xdg-screensaver"] = 0
              THEN [s1 EXCEPT !.os_screensaver = cmd] ELSE s1
    IN  IF must_disable
        THEN IF s2.os_dpms = "Enabled"
             THEN LET s3 == os_system([s2 EXCEPT !.dpms_was_enabled = <<TRUE>>],
                                      "xset", "-dpms")
                  IN  IF s.os_status["xset"] = 0
                      THEN [s3 EXCEPT !.os_dpms = "Disabled"] ELSE s3
             ELSE s2
        ELSE IF s2.dpms_was_enabled = None THEN [s2 EXCEPT !.raised = TRUE]
        ELSE IF s2.dpms_was_enabled[1]
             THEN LET s3 == os_system(s2, "xset", "+dpms")
                  IN  IF s.os_status["xset"] = 0
                      THEN [s3 EXCEPT !.os_dpms = "Enabled"] ELSE s3
             ELSE s2

\* set_screensaver(must_disable): on posix, ask xdg-screensaver to suspend or
\* resume, then manage DPMS: on disabling, remember whether it was enabled
\* and switch it off; on enabling, switch it on again if it was.  A non-zero
\* status is only reported.  The content window's xid is read, which raises
\* while the window is not realized; so does reading dpms_was_enabled before
\* it was ever assigned.
set_screensaver(s, must_disable) ==
    IF s.os_name # "posix" THEN s
    ELSE IF s.window["c_da"] = None THEN [s EXCEPT !.raised = TRUE]
    ELSE
    LET cmd == IF must_disable THEN "suspend" ELSE "resume"
        s1 == os_system(s, "xdg-screensaver", cmd)
        s2 == IF s.os_status["xdg-screensaver"] = 0
              THEN [s1 EXCEPT !.os_screensaver = cmd] ELSE s1
    IN  IF must_disable
        THEN IF s2.os_dpms = "Enabled"
             THEN LET s3 == os_system([s2 EXCEPT !.dpms_was_enabled = <<TRUE>>],
                                      "xset", "-dpms")
                  IN  IF s.os_status["xset"] = 0
                      THEN [s3 EXCEPT !.os_dpms = "Disabled"] ELSE s3
             ELSE [s2 EXCEPT !.dpms_was_enabled = <<FALSE>>]
        ELSE IF s2.dpms_was_enabled = None THEN [s2 EXCEPT !.raised = TRUE]
        ELSE IF s2.dpms_was_enabled[1]
             THEN LET s3 == os_system(s2, "xset", "+dpms")
                  IN  IF s.os_status["xset"] = 0
                      THEN [s3 EXCEPT !.os_dpms = "Enabled"] ELSE s3
             ELSE s2

\* faulty variant of switch_fullscreen: entering fullscreen starts the timer
switch_fullscreen_Start(s) ==
    LET s1 == IF s.fullscreen THEN [s EXCEPT !.fullscreen = FALSE]
              ELSE [s EXCEPT !.fullscreen = TRUE, !.paused = FALSE]
    IN  set_screensaver(s1, s1.fullscreen)

\* faulty variant of switch_fullscreen: the screensaver is set from the flag
\* as it was before the flip
switch_fullscreen_Stale(s) ==
    LET s1 == IF s.fullscreen THEN [s EXCEPT !.fullscreen = FALSE]
              ELSE [s EXCEPT !.fullscreen = TRUE]
    IN  set_screensaver(s1, s.fullscreen)

\* switch_fullscreen()
switch_fullscreen(s) ==
    LET s1 == IF s.fullscreen THEN [s EXCEPT !.fullscreen = FALSE]
              ELSE [s EXCEPT !.fullscreen = TRUE]
    IN  set_screensaver(s1, s1.fullscreen)

(***************************************************************************)
(* UI: hyperlinks.                                                         *)
(***************************************************************************)
\* page.get_link_at(x2, y2) with x2 = x/ww, y2 = y/wh: the page's link covers
\* the points with x2 < 1/2
doc_get_link_at(s, nb, x, ww, y, wh) ==
    IF 2 * x < ww THEN s.links[nb] ELSE None

\* faulty variant of on_link: the pointer is not restored when it leaves a
\* link
on_link_NoRestore(s, widget, event) ==
    LET nb == s.cur_page
    IN  IF s.window[widget] = None THEN [s EXCEPT !.raised = TRUE]
        ELSE
        LET ww == s.window[widget][1]
            wh == s.window[widget][2]
            link == doc_get_link_at(s, nb, event.x, ww, event.y, wh)
        IN  IF event.type = "BUTTON_PRESS"
            THEN IF link # None THEN doc_goto(s, link[1]) ELSE s
            ELSE IF event.type = "MOTION_NOTIFY"
            THEN IF link # None
                 THEN [s EXCEPT !.cursor[widget] = "HAND2"]
                 ELSE s
            ELSE s

\* on_link(widget, event): a click on a link goes to its destination; moving
\* the pointer over a link shows a hand, and the default pointer elsewhere
on_link(s, widget, event) ==
    LET page == doc_current_page(s)
    IN  IF widget = "p_da_next" /\ page = None THEN s
        ELSE IF s.window[widget] = None THEN [s EXCEPT !.raised = TRUE]
        ELSE
        LET ww == s.window[widget][1]
            wh == s.window[widget][2]
            link == doc_get_link_at(s, page[1], event.x, ww, event.y, wh)
        IN  IF event.type = "BUTTON_PRESS"
            THEN IF link # None THEN doc_goto(s, link[1]) ELSE s
            ELSE IF event.type = "MOTION_NOTIFY"
            THEN IF link # None
                 THEN [s EXCEPT !.cursor[widget] = "HAND2"]
                 ELSE [s EXCEPT !.cursor[widget] = "default"]
            ELSE s

\* faulty variant of switch_mode: the presenter's current pane is given the
\* content half instead of the notes half
switch_mode_NoNotes(s) ==
    LET s1 == IF s.notes_mode
              THEN cache_set_widget_type(
                     cache_set_widget_type(
                       cache_set_widget_type([s EXCEPT !.notes_mode = FALSE],
                         "c_da", PDF_REGULAR),
                       "p_da_cur", PDF_REGULAR),
                     "p_da_next", PDF_REGULAR)
              ELSE cache_set_widget_type(
                     cache_set_widget_type(
                       cache_set_widget_type([s EXCEPT !.notes_mode = TRUE],
                         "c_da", PDF_CONTENT_PAGE),
                       "p_da_cur", PDF_CONTENT_PAGE),
                     "p_da_next", PDF_CONTENT_PAGE)
    IN  on_page_change(s1, FALSE)

\* faulty variant of switch_mode: the redraw is asked to unpause
switch_mode_Unpause(s) ==
    LET s1 == IF s.notes_mode
              THEN cache_set_widget_type(
                     cache_set_widget_type(
                       cache_set_widget_type([s EXCEPT !.notes_mode = FALSE],
                         "c_da", PDF_REGULAR),
                       "p_da_cur", PDF_REGULAR),
                     "p_da_next", PDF_REGULAR)
              ELSE cache_set_widget_type(
                     cache_set_widget_type(
                       cache_set_widget_type([s EXCEPT !.notes_mode = TRUE],
                         "c_da", PDF_CONTENT_PAGE),
                       "p_da_cur", PDF_NOTES_PAGE),
                     "p_da_next", PDF_CONTENT_PAGE)
    IN  on_page_change(s1, TRUE)

\* switch_mode(): flip notes mode, give each widget its page type, redraw
\* without unpausing
switch_mode(s) ==
    LET s1 == IF s.notes_mode
              THEN cache_set_widget_type(
                     cache_set_widget_type(
                       cache_set_widget_type([s EXCEPT !.notes_mode = FALSE],
                         "c_da", PDF_REGULAR),
                       "p_da_cur", PDF_REGULAR),
                     "p_da_next", PDF_REGULAR)
              ELSE cache_set_widget_type(
                     cache_set_widget_type(
                       cache_set_widget_type([s EXCEPT !.notes_mode = TRUE],
                         "c_da", PDF_CONTENT_PAGE),
                       "p_da_cur", PDF_NOTES_PAGE),
                     "p_da_next", PDF_CONTENT_PAGE)
    IN  on_page_change(s1, FALSE)

(***************************************************************************)
(* UI: keyboard and scroll events.                                         *)
(***************************************************************************)
\* name.upper(), for the key names the handler looks at
upper(name) ==
    CASE name = "f" -> "F"  [] name = "q" -> "Q"  [] name = "r" -> "R"
      [] name = "n" -> "N"  [] name = "g" -> "G"  [] name = "p" -> "P"
      [] OTHER -> name

\* on_navigation(widget, event); widget is the window that got the event
on_navigation(s, widget, event) ==
    IF event.type = "KEY_PRESS"
    THEN LET name == event.name
         IN  IF name \in {"Right", "Down", "Page_Down", "space"}
             THEN doc_goto_next(s)
             ELSE IF name \in {"Left", "Up", "Page_Up", "BackSpace"}
             THEN doc_goto_prev(s)
             ELSE IF name = "Home" THEN doc_goto_home(s)
             ELSE IF name = "End" THEN doc_goto_end(s)
             ELSE IF upper(name) \in {"F", "F11"} THEN switch_fullscreen(s)
             ELSE IF upper(name) = "Q" THEN s
             ELSE IF name = "Pause" THEN switch_pause(s)
             ELSE IF upper(name) = "R" THEN reset_timer(s)
             ELSE IF upper(name) = "N" THEN switch_mode(s)
             ELSE IF upper(name) = "G" THEN select_page(s, event, TRUE)
             ELSE IF isdigit(event.string) THEN select_page(s, event, FALSE)
             ELSE IF widget = "c_win"
             THEN IF upper(name) = "P" THEN switch_pause(s)
                  ELSE IF upper(name) = "N" THEN switch_mode(s)
                  ELSE s
             ELSE s
    ELSE IF event.type = "SCROLL"
    THEN IF event.direction \in {"SCROLL_RIGHT", "SCROLL_DOWN"}
         THEN doc_goto_next(s)
         ELSE doc_goto_prev(s)
    ELSE s

KeyPress(name, t) ==
    [type |-> "KEY_PRESS", name |-> name, direction |-> "",
     string |-> IF IsDigitChar(name) THEN <<name>> ELSE <<>>, time |-> t]
Scroll(direction, t) ==
    [type |-> "SCROLL", name |-> "", direction |-> direction,
     string |-> <<>>, time |-> t]

(***************************************************************************)
(* Initial states.                                                         *)
(***************************************************************************)
\* The links of the documents considered: the first page links one page past
\* the end of the document, the last page links back to the first.
DocLinks(n) ==
    [p \in 0..(n - 1) |-> IF p = 0 THEN <<n>> ELSE IF p = n - 1 THEN <<0>> ELSE None]

\* UI.__init__ for a document of n pages with or without notes.  The drawing
\* areas exist but the toolkit has not realized them yet.
InitState(n, notes) ==
    [ nb_pages |-> n, links |-> DocLinks(n), cur_page |-> 0,
      dpms_was_enabled |-> None, cursor |-> [w \in Widgets |-> "default"],
      os_name |-> "posix", os_status |-> [c \in Commands |-> 0],
      os_dpms |-> "Enabled", timers |-> 1, os_calls |-> <<>>,
      calls |-> <<>>, hidden |-> {},
      os_screensaver |-> "resume",
      start_time |-> 0, delta |-> 0, paused |-> TRUE,
      fullscreen |-> FALSE, notes_mode |-> notes,
      s_go_page_num |-> <<>>, old_event_time |-> None,
      eb_child |-> "label_cur", entry_text |-> <<>>,
      label_cur |-> <<>>, label_next |-> <<>>,
      pixbuf_type |-> [w \in Widgets |->
                         IF ~notes THEN PDF_REGULAR
                         ELSE IF w = "p_da_cur" THEN PDF_NOTES_PAGE
                         ELSE PDF_CONTENT_PAGE],
      pixbuf_size |-> [w \in Widgets |-> None],
      pixbuf_cache |-> [w \in Widgets |-> <<>>],
      window |-> [w \in Widgets |-> None],
      screen |-> [w \in Widgets |-> {}],
      now |-> Epoch, last_tick |-> Epoch, quiet |-> 0,
      raised |-> FALSE, rendered |-> {}, drawn |-> [w \in Widgets |-> {}],
      prerendered |-> <<>>, goto_args |-> <<>> ]

\* The toolkit realizes a widget at a size and sends it a configure event.
realize(s, widget, size) ==
    on_configure([s EXCEPT !.window[widget] = size], widget, size[1], size[2])

\* The state once show_all() has realized the three drawing areas.
ShownState(n, notes, size) ==
    realize(realize(realize(InitState(n, notes), "c_da", size),
                    "p_da_cur", size), "p_da_next", size)

(***************************************************************************)
(* Actions: one per event the toolkit delivers.                            *)
(***************************************************************************)
\* a drawing area is realized
Realize(sizes) ==
    \E w \in Widgets, size \in sizes :
        /\ window[w] = None
        /\ Apply(realize(Begin(St), w, size))

\* configure-event: a realized drawing area gets a (new) size
Configure(sizes) ==
    \E w \in Widgets, size \in sizes :
        /\ window[w] # None
        /\ Apply(on_configure(Begin([St EXCEPT !.window[w] = size]),
                              w, size[1], size[2]))

\* expose-event on a realized drawing area
Expose ==
    \E w \in Widgets :
        /\ window[w] # None
        /\ Apply(on_expose(Begin(St), w))

\* key-press-event on either window
Key(names) ==
    \E name \in names, widget \in {"c_win", "p_win"} :
        /\ widget = "c_win" => name \in {"p", "n"}
        /\ IsDigitChar(name) => Len(s_go_page_num) < MaxBuffer
        /\ Apply(on_navigation(Begin(St), widget, KeyPress(name, now)))

\* scroll-event on either window
ScrollEvent ==
    \E direction \in {"SCROLL_UP", "SCROLL_DOWN"} :
        /\ direction \in {"SCROLL_UP", "SCROLL_DOWN"}
        /\ Apply(on_navigation(Begin(St), "p_win", Scroll(direction, now)))

\* the menu items of the presenter window
Menu(items) ==
    \E item \in items :
        Apply(CASE item = "Pause timer" -> switch_pause(Begin(St))
                [] item = "Reset timer" -> reset_timer(Begin(St))
                [] item = "Fullscreen" -> switch_fullscreen(Begin(St))
                [] item = "Notes mode" -> switch_mode(Begin(St)))

\* the user types into the entry
EditEntry(texts) ==
    \E text \in texts :
        /\ eb_child = "entry_cur"
        /\ entry_text # text
        /\ Apply([St EXCEPT !.entry_text = text])

\* events on the event box of the current-page label
LabelEvent ==
    \E event \in {[type |-> "BUTTON_PRESS", name |-> ""],
                  [type |-> "KEY_RELEASE", name |-> "Return"],
                  [type |-> "KEY_RELEASE", name |-> "Escape"]} :
        /\ event.type = "BUTTON_PRESS" => eb_child = "label_cur"
        /\ event.type = "KEY_RELEASE" => eb_child = "entry_cur"
        /\ Apply(on_label_event(Begin(St), event))

\* button-press-event and motion-notify-event on a realized drawing area
LinkEvent(types) ==
    \E w \in Widgets, type \in types :
        /\ window[w] # None
        /\ \E x \in 0..(window[w][1] - 1), y \in 0..(window[w][2] - 1) :
              Apply(on_link(Begin(St), w, [type |-> type, x |-> x, y |-> y]))

\* the periodic tick is due and fires
Tick ==
    /\ timers > 0
    /\ last_tick < now
    /\ Apply([timeout_fires(Begin(St)) EXCEPT !.last_tick = now])

\* A quiet period of k tick intervals passes.  The ticks that fall inside it
\* fire; the one due at its end is left to Tick, so that an event at that
\* instant may come before or after it.
Advance(k, max) ==
    /\ last_tick = now
    /\ quiet < max
    /\ LET t == now + (k - 1) * TickInterval
           s == [St EXCEPT !.quiet = @ + 1]
       IN  Apply(IF k > 1
                 THEN [timeout_fires([Begin(s) EXCEPT !.now = t])
                         EXCEPT !.last_tick = t, !.now = t + TickInterval]
                 ELSE [s EXCEPT !.now = t + TickInterval])

(***************************************************************************)
(* Specifications.                                                         *)
(***************************************************************************)
NavKeys == {"Right", "Left", "Home", "End"}
ModeKeys == {"f", "Pause", "r", "n", "p"}
MenuItems == {"Pause timer", "Reset timer", "Fullscreen", "Notes mode"}
EntryTexts == {<<"0">>, <<"2", "/", "9">>, <<"9">>, <<"-", "1">>, <<"x">>, <<>>}
TypedDigits == {DigitChars[d + 1] : d \in 0..MaxDigit}

\* The render cache: realization, resizing, redraws, navigation and the notes
\* mode on small documents, with the clock standing still.
Init ==
    \E n \in 1..MaxPages, notes \in BOOLEAN : Is(InitState(n, notes))

Next ==
    \/ Realize(Sizes)
    \/ Configure(Sizes)
    \/ Expose
    \/ Key(NavKeys \cup {"n"})
    \/ ScrollEvent

Spec == Init /\ [][Next]_vars

\* Navigation of a long document whose widgets are shown.
InitNav ==
    \E size \in Sizes : Is(ShownState(NavPages, FALSE, size))

NextNav ==
    \/ Key(NavKeys)
    \/ ScrollEvent
    \/ Expose

SpecNav == InitNav /\ [][NextNav]_vars

\* Page jumps by digits and the jump key, with the clock.
InitJump ==
    \E n \in 1..MaxPages, size \in {<<MaxDim, 1>>} : Is(ShownState(n, FALSE, size))

NextJump ==
    \/ Key(TypedDigits \cup {"g"})
    \/ Tick
    \/ Advance(JumpQuietTicks, JumpMaxQuiet)

SpecJump == InitJump /\ [][NextJump]_vars

\* Every source of navigation: keys, scrolling, typed page numbers, the entry
\* and links, with the clock standing still.
InitGoto ==
    \E n \in 1..MaxPages, size \in {<<MaxDim, 1>>} : Is(ShownState(n, FALSE, size))

NextGoto ==
    \/ Key(TypedDigits \cup {"g"} \cup NavKeys)
    \/ ScrollEvent
    \/ EditEntry(EntryTexts)
    \/ LabelEvent
    \/ LinkEvent({"BUTTON_PRESS"})

SpecGoto == InitGoto /\ [][NextGoto]_vars

\* The presentation state: timer, pause, fullscreen and notes mode, with the
\* clock.
InitPresentation ==
    \E n \in 1..MaxPages, size \in {<<MaxDim, 1>>} : Is(ShownState(n, FALSE, size))

NextPresentation ==
    \/ Key(ModeKeys \cup {"Right", "Left"})
    \/ Menu(MenuItems)
    \/ Tick
    \/ Advance(TimerQuietTicks, TimerMaxQuiet)

SpecState == InitPresentation /\ [][NextPresentation]_vars

\* The timer: the periodic timeout, the pause and reset handlers that call
\* update_time themselves, and the clock.  The main loop runs a timeout that
\* is due: the tick is weakly fair.
NextTimer ==
    \/ Key({"Pause", "r"})
    \/ Menu({"Pause timer", "Reset timer"})
    \/ Tick
    \/ Advance(JumpQuietTicks, JumpMaxQuiet)

SpecTimer == InitPresentation /\ [][NextTimer]_vars /\ WF_vars(Tick)

\* Hyperlinks: clicks and pointer moves on the three widgets, and the keys
\* that change the page, on documents that have a page without a link.
InitLink ==
    \E n \in 1..(MaxPages + 1), size \in Sizes : Is(ShownState(n, FALSE, size))

NextLink ==
    \/ LinkEvent({"BUTTON_PRESS", "MOTION_NOTIFY"})
    \/ Key(NavKeys)

SpecLink == InitLink /\ [][NextLink]_vars

\* the exit status of a command changes (the screensaver stops or starts
\* answering): the environment's step
SystemStatus ==
    \E c \in Commands, status \in {0, 1} :
        /\ os_status[c] # status
        /\ Apply([St EXCEPT !.os_status[c] = status])

\* Fullscreen and the screensaver, on a supported and an unsupported system,
\* with DPMS on or off at the start and commands that succeed or fail.
InitScreen ==
    \E n \in 1..MaxPages, name \in {"posix", "nt"},
       dpms \in {"Enabled", "Disabled"} :
        Is([ShownState(n, FALSE, <<MaxDim, 1>>)
              EXCEPT !.os_name = name, !.os_dpms = dpms])

NextScreen ==
    \/ Key({"f", "n", "Pause"})
    \/ Menu({"Fullscreen"})
    \/ SystemStatus

SpecScreen == InitScreen /\ [][NextScreen]_vars

(***************************************************************************)
(* Properties.                                                             *)
(***************************************************************************)

\* the last handler redrew the three widgets: it was a page change
PageChanged == ~raised /\ \A w \in Widgets : drawn[w] # {}

\* the page types the notes mode asks for
VariantsOf(notes) ==
    [w \in Widgets |->
        IF ~notes THEN PDF_REGULAR
        ELSE IF w = "p_da_cur" THEN PDF_NOTES_PAGE
        ELSE PDF_CONTENT_PAGE]

\* C1: every pixbuf on_expose draws is the current page rendered with the type
\* and at the size the widget has at the time of the call, and no cached
\* pixbuf predates the widget's last change of size or type.
C1_CacheCoherence ==
    \A w \in Widgets :
        /\ \A pb \in drawn[w] :
              /\ window[w] # None
              /\ <<pb.w, pb.h>> = window[w]
              /\ pb.wtype = pixbuf_type[w]
              /\ pb.nb = cur_page
        /\ \A p \in DOMAIN pixbuf_cache[w] :
              /\ <<pixbuf_cache[w][p].w, pixbuf_cache[w][p].h>> = window[w]
              /\ pixbuf_cache[w][p].wtype = pixbuf_type[w]
              /\ pixbuf_cache[w][p].nb = p

\* a cached pixbuf was drawn, in notes mode, on a widget whose window shows
\* the page as it is cached
C1_Witness ==
    \E w \in Widgets :
        /\ drawn[w] # {}
        /\ <<w, cur_page>> \notin rendered
        /\ pixbuf_type[w] = PDF_NOTES_PAGE
        /\ cur_page > 0

\* C2: a configure event with a new size leaves no cache entry for the widget,
\* and in every state a resize makes the next redraw of each page that was
\* cached render it again.
C2_InvalidationComplete ==
    /\ [][\A w \in Widgets :
            (window[w] # None /\ window'[w] # window[w])
                => pixbuf_cache'[w] = <<>>]_vars
    /\ [](\A w \in Widgets, size \in Sizes :
            (window[w] # None /\ size # window[w]) =>
                LET r == on_configure(Begin([St EXCEPT !.window[w] = size]),
                                      w, size[1], size[2])
                IN  /\ r.pixbuf_cache[w] = <<>>
                    /\ \A p \in DOMAIN pixbuf_cache[w] :
                          <<w, p>> \in
                            on_expose([r EXCEPT !.cur_page = p], w).rendered)

\* a widget was drawn and cached, then resized: its window still shows the
\* page with the current type, and its cache is empty
C2_Witness ==
    \E w \in Widgets :
        /\ window[w] # None
        /\ pixbuf_cache[w] = <<>>
        /\ \E x \in screen[w] : x.wtype = pixbuf_type[w]
        /\ \E v \in Widgets : pixbuf_cache[v] # <<>>

\* C3: a page change to page c of N pages asks the cache to prerender exactly
\* the pages c+1..c+4 and c-2..c that lie in 0..N-1; for c = 10 and N = 50
\* these are 11, 12, 13, 14, 8, 9 and 10.
C3_PrefetchWindow ==
    /\ PageChanged =>
          {prerendered[i] : i \in 1..Len(prerendered)}
              = ((cur_page + 1)..(cur_page + 4) \cup (cur_page - 2)..cur_page)
                  \cap 0..(nb_pages - 1)
    /\ LET pages == PrerenderPages(10, 50)
       IN  {pages[i] : i \in 1..Len(pages)} = {11, 12, 13, 14, 8, 9, 10}

\* C4: the page types follow the notes mode alone; switch_mode flips the mode,
\* gives all three widgets their type, leaves no pixbuf of the old type in any
\* cache, and a second switch_mode restores the mode and the types.
C4_NotesModeMapping ==
    /\ pixbuf_type = VariantsOf(notes_mode)
    /\ LET r == switch_mode(Begin(St))
           r2 == switch_mode(Begin(r))
       IN  /\ r.notes_mode = ~notes_mode
           /\ r.pixbuf_type = VariantsOf(~notes_mode)
           /\ \A w \in Widgets :
                 /\ r.pixbuf_type[w] # pixbuf_type[w]
                 /\ \A p \in DOMAIN r.pixbuf_cache[w] :
                       r.pixbuf_cache[w][p].wtype = r.pixbuf_type[w]
           /\ r2.notes_mode = notes_mode
           /\ r2.pixbuf_type = pixbuf_type

\* switch_mode has just switched the notes mode on and redrawn the widgets
C4_Witness ==
    /\ PageChanged
    /\ goto_args = <<>>
    /\ notes_mode
    /\ \E p \in DOMAIN pixbuf_cache["p_da_cur"] :
          pixbuf_cache["p_da_cur"][p].wtype = PDF_NOTES_PAGE

\* gaps between key events, in ms: below and above the timeout
Gaps == {0, DigitTimeout - TickInterval, DigitTimeout}

\* the digit or jump key pressed at time t
press(s, name, t) == on_navigation(Begin(s), "p_win", KeyPress(name, t))

\* C5: a digit typed at least 0 ms and less than the timeout after the
\* previous event is appended to the buffer, any other digit replaces the
\* buffer; so 1, 2, 3 with gaps below the timeout and then the jump key go to
\* index 122, and with a gap of the timeout or more between 1 and 2 to index 22.
C5_DigitAggregation ==
    /\ \A name \in TypedDigits, t \in {now, now - DigitTimeout} :
          press(St, name, t).s_go_page_num =
              IF /\ old_event_time # None
                 /\ t - old_event_time[1] >= 0
                 /\ t - old_event_time[1] < DigitTimeout
              THEN s_go_page_num \o <<name>>
              ELSE <<name>>
    /\ (s_go_page_num = <<>> \/ old_event_time = None
            \/ now - old_event_time[1] >= DigitTimeout) =>
          \A g1 \in Gaps, g2 \in Gaps, g3 \in Gaps :
              LET r == press(press(press(press(St, "1", now),
                                         "2", now + g1),
                                   "3", now + g1 + g2),
                             "g", now + g1 + g2 + g3)
              IN  /\ (g1 < DigitTimeout /\ g2 < DigitTimeout)
                        => r.goto_args = <<122>>
                  /\ (g1 >= DigitTimeout /\ g2 < DigitTimeout)
                        => r.goto_args = <<22>>
                  /\ r.s_go_page_num = <<>>

\* 1, 2 and 3 were typed half a second apart and the jump key went to 122
C5_Witness ==
    /\ goto_args = <<122>>
    /\ s_go_page_num = <<>>
    /\ now >= Epoch + DigitTimeout

\* C6: switch_pause on a paused timer sets start_time = now - delta, so the
\* elapsed time right after the resume is the one shown when the timer was
\* paused: a timer that ran for 10 s (the display being at most one tick
\* late), was paused and is resumed 5 s later shows 10 s, within one tick.
C6_PauseResume ==
    /\ paused =>
          LET r == switch_pause(Begin(St))
          IN  ~r.paused /\ r.start_time = now - delta /\ r.delta = delta
    /\ (~paused /\ (now - start_time) - delta \in 0..TickInterval) =>
          \A k \in 0..TimerQuietTicks :
              LET p == switch_pause(Begin(St))
                  later == [p EXCEPT !.now = @ + k * TickInterval]
                  r == switch_pause(Begin(later))
              IN  /\ p.paused /\ ~r.paused
                  /\ r.delta = p.delta
                  /\ (now - start_time) - r.delta \in 0..TickInterval
                  /\ (now - start_time = 10000 /\ k * TickInterval = 5000)
                        => r.delta \in (10000 - TickInterval)..10000

\* the timer started when the UI was built, was paused after 10 s and resumed
\* 5 s later: it shows 10 s less one tick
C6_Witness ==
    /\ ~paused
    /\ now = Epoch + 15000
    /\ delta = 10000 - TickInterval
    /\ start_time = now - delta
    /\ goto_args = <<>>

\* C7: the elapsed time never includes an interval during which the timer was
\* paused: whatever resumes the timer, the elapsed time counted from then on
\* continues from the value shown during the pause; and until the counter is
\* first started the timer is paused and shows 0.
C7_ElapsedExcludesPause ==
    /\ [](start_time = 0 => (paused /\ delta = 0))
    /\ [][(paused /\ ~paused') => (now' - start_time' = delta)]_vars

\* the presentation state the idempotence is about
Presentation(s) ==
    <<s.cur_page, s.paused, s.start_time, s.notes_mode, s.fullscreen,
      s.pixbuf_type>>

\* C8: goto(n) followed, at once or later, by a goto to the page it led to
\* leaves the presentation state as the first goto left it; were the page
\* change run again, it would not start the timer a second time.
C8_IdempotentGoto ==
    \A n \in (0 - 1)..nb_pages, k \in 0..1 :
        LET s1 == doc_goto(Begin(St), n)
            later == [s1 EXCEPT !.now = @ + k * TickInterval]
            s2 == doc_goto(Begin(later), s1.cur_page)
            s3 == on_page_change(Begin(later), TRUE)
        IN  /\ Presentation(s2) = Presentation(s1)
            /\ s1.cur_page # cur_page => Presentation(s3) = Presentation(s1)

\* a goto to the page already shown, after a page change started the timer
C8_Witness ==
    /\ goto_args # <<>>
    /\ \A w \in Widgets : drawn[w] = {}
    /\ ~raised
    /\ start_time # 0
    /\ cur_page > 0

\* C9: the current page stays within the document whatever asks for a page,
\* and a target outside the document is clamped without an error; a number
\* committed in the entry is clamped before it is handed to goto.
C9_CurrentPageInRange ==
    /\ cur_page \in 0..(nb_pages - 1)
    /\ goto_args # <<>> =>
          /\ ~raised
          /\ LET n == goto_args[Len(goto_args)]
             IN  cur_page = IF n < 0 THEN 0
                            ELSE IF n >= nb_pages THEN nb_pages - 1
                            ELSE n
    /\ \A text \in EntryTexts :
          LET typed == [St EXCEPT !.eb_child = "entry_cur", !.entry_text = text]
              r == on_label_event(Begin(typed),
                                  [type |-> "KEY_RELEASE", name |-> "Return"])
          IN  /\ ~r.raised
              /\ r.cur_page \in 0..(nb_pages - 1)
              /\ \A i \in 1..Len(r.goto_args) :
                    r.goto_args[i] \in 0..(nb_pages - 1)

\* a page number above the page count was typed and the jump key pressed
C9_Witness ==
    /\ goto_args # <<>>
    /\ goto_args[1] > nb_pages
    /\ cur_page = nb_pages - 1
    /\ s_go_page_num = <<>>
    /\ PageChanged

\* C10: a redraw of a widget that is not realized renders nothing, stores no
\* cache entry, leaves the window as it is and raises no error.
C10_UnreadySoftMiss ==
    \A w \in Widgets :
        window[w] = None =>
            LET r == on_expose(Begin(St), w)
            IN  /\ r.rendered = {}
                /\ r.pixbuf_cache = pixbuf_cache
                /\ r.screen = screen
                /\ ~r.raised

\* C11: reset_timer at time t zeroes the elapsed time: a tick k intervals
\* later shows the time passed since t when the timer runs and 0 when it is
\* paused, and after a later resume the elapsed time is at least the time
\* since the resume and at most the time since t.
C11_ResetZeroes ==
    LET r == reset_timer(Begin(St))
    IN  \A k \in 0..2, j \in 0..2 :
            LET later == [r EXCEPT !.now = @ + k * TickInterval]
                tick == update_time(Begin(later))
                resumed == switch_pause(Begin(later))
                after == update_time(
                            Begin([resumed EXCEPT !.now = @ + j * TickInterval]))
            IN  /\ ~paused => tick.delta = k * TickInterval
                /\ paused =>
                      /\ tick.delta = 0
                      /\ ~resumed.paused
                      /\ after.delta >= j * TickInterval
                      /\ after.delta <= (k + j) * TickInterval

\* C12: a page change that unpauses sets start_time to the current time when
\* start_time is 0 and leaves it otherwise; start_time is 0 only as long as
\* nothing has started the timer, and once it is not 0 no page change
\* changes it.
C12_TimerStartOnNavigation ==
    /\ [](LET r == on_page_change(Begin(St), TRUE)
              q == on_page_change(Begin(St), FALSE)
          IN  /\ r.start_time = IF start_time = 0 THEN now ELSE start_time
              /\ q.start_time = start_time
              /\ start_time = 0 => (paused /\ delta = 0))
    /\ [][start_time # 0 => start_time' # 0]_vars
    /\ [][(goto_args' # <<>> /\ start_time # 0)
            => start_time' = start_time]_vars
    /\ [][(goto_args' # <<>> /\ start_time = 0 /\ cur_page' # cur_page)
            => start_time' = now']_vars

\* the timer was started some time ago and a page change has just left
\* start_time as it was
C12_Witness ==
    /\ PageChanged
    /\ goto_args # <<>>
    /\ ~paused
    /\ start_time # 0
    /\ start_time + DigitTimeout < now

\* C13: the jump key with digits in the buffer goes to the page of index
\* (typed number - 1), clamped by goto; with an empty buffer it goes nowhere;
\* either way the buffer is empty afterwards and nothing is raised.
C13_JumpTrigger ==
    /\ Len(s_go_page_num) <= MaxBuffer
    /\ \A i \in 1..Len(s_go_page_num) : IsDigitChar(s_go_page_num[i])
    /\ goto_args # <<>> => s_go_page_num = <<>>
    /\ digits_value(<<"1", "2", "3">>) = 123
    /\ LET r == press(St, "g", now)
       IN  /\ r.s_go_page_num = <<>>
           /\ ~r.raised
           /\ s_go_page_num = <<>> =>
                 /\ r.goto_args = <<>>
                 /\ r.cur_page = cur_page
                 /\ \A w \in Widgets : r.drawn[w] = {}
           /\ s_go_page_num # <<>> =>
                 /\ r.goto_args = <<digits_value(s_go_page_num) - 1>>
                 /\ r.cur_page =
                       Max(0, Min(nb_pages - 1, digits_value(s_go_page_num) - 1))

\* the jump key has just gone to the second page, typed as 2
C13_Witness ==
    /\ goto_args # <<>>
    /\ goto_args[1] = cur_page
    /\ cur_page > 0
    /\ s_go_page_num = <<>>
    /\ PageChanged

\* C14: once more than the timeout has passed since the last key event of the
\* page jump, the buffer is empty and the jump key goes nowhere.
C14_PendingJumpExpires ==
    (old_event_time # None /\ now - old_event_time[1] > DigitTimeout) =>
        /\ s_go_page_num = <<>>
        /\ press(St, "g", now).goto_args = <<>>

\* what Python reads in each text of the entry, before any '/': <<n>>, or
\* None when int() raises ValueError
EntryNumber(text) ==
    CASE text = <<"0">> -> <<0>>
      [] text = <<"2", "/", "9">> -> <<2>>
      [] text = <<"9">> -> <<9>>
      [] text = <<"-", "1">> -> <<0 - 1>>
      [] OTHER -> None

\* the timer as the handlers leave it
TimerState(s) == <<s.paused, s.start_time, s.delta>>

\* C15: Return in the entry goes to the page whose number is the text before
\* the first '/', clamped into 1..page count; Return on a text that is no
\* number, and Escape, leave the page and the timer as they are; in every
\* case the label is shown afterwards.
C15_EditablePageField ==
    /\ \A text \in EntryTexts :
          LET typed == [St EXCEPT !.eb_child = "entry_cur", !.entry_text = text]
              r == on_label_event(Begin(typed),
                                  [type |-> "KEY_RELEASE", name |-> "Return"])
              number == EntryNumber(text)
          IN  /\ r.eb_child = "label_cur"
              /\ ~r.raised
              /\ number # None =>
                    r.cur_page + 1 = Max(1, Min(nb_pages, number[1]))
              /\ number = None =>
                    /\ r.cur_page = cur_page
                    /\ r.goto_args = <<>>
                    /\ TimerState(r) = TimerState(St)
    /\ \A text \in EntryTexts :
          LET typed == [St EXCEPT !.eb_child = "entry_cur", !.entry_text = text]
              r == on_label_event(Begin(typed),
                                  [type |-> "KEY_RELEASE", name |-> "Escape"])
          IN  /\ r.eb_child = "label_cur"
              /\ r.cur_page = cur_page
              /\ r.goto_args = <<>>
              /\ TimerState(r) = TimerState(St)
              /\ ~r.raised

\* 2/9 was typed in the entry on the first page of two and committed: the
\* second page is shown and the label is back
C15_Witness ==
    /\ eb_child = "label_cur"
    /\ entry_text = <<"2", "/", "9">>
    /\ goto_args = <<1>>
    /\ cur_page = 1
    /\ PageChanged

\* C16: switch_mode leaves paused, start_time, the elapsed time and the
\* current page as they were and redraws the three widgets with the current
\* page in their new type; no step that changes the notes mode changes the
\* timer or the page.
C16_NotesModeKeepsTimer ==
    /\ [](LET r == switch_mode(Begin(St))
          IN  /\ r.notes_mode # notes_mode
              /\ r.paused = paused
              /\ r.start_time = start_time
              /\ r.delta = delta
              /\ r.cur_page = cur_page
              /\ r.goto_args = <<>>
              /\ ~r.raised
              /\ \A w \in Widgets :
                    /\ r.drawn[w] # {}
                    /\ r.screen[w] =
                          {[nb |-> cur_page, wtype |-> r.pixbuf_type[w]]})
    /\ [][notes_mode' # notes_mode =>
            /\ paused' = paused
            /\ start_time' = start_time
            /\ cur_page' = cur_page
            /\ PageChanged']_vars

\* the notes mode was switched on with a timer that was never started: it
\* still is not, and the widgets were redrawn
C16_Witness ==
    /\ notes_mode
    /\ PageChanged
    /\ paused
    /\ start_time = 0
    /\ delta = 0
    /\ cur_page = 0

\* the three flags
Flags(s) == <<s.notes_mode, s.paused, s.fullscreen>>

\* C17: switch_mode, switch_pause and switch_fullscreen each flip their own
\* flag and leave the two others as they are, so that from any state every
\* combination of the three flags is reached by the toggles of the flags
\* that differ.
C17_FlagIndependence ==
    /\ Flags(switch_mode(Begin(St))) = <<~notes_mode, paused, fullscreen>>
    /\ Flags(switch_pause(Begin(St))) = <<notes_mode, ~paused, fullscreen>>
    /\ Flags(switch_fullscreen(Begin(St))) = <<notes_mode, paused, ~fullscreen>>
    /\ \A target \in BOOLEAN \X BOOLEAN \X BOOLEAN :
          LET s1 == IF target[1] # notes_mode
                    THEN switch_mode(Begin(St)) ELSE St
              s2 == IF target[2] # paused
                    THEN switch_pause(Begin(s1)) ELSE s1
              s3 == IF target[3] # fullscreen
                    THEN switch_fullscreen(Begin(s2)) ELSE s2
          IN  Flags(s3) = target /\ ~s3.raised

\* every flag has been toggled away from its initial value
C17_Witness ==
    /\ notes_mode
    /\ ~paused
    /\ fullscreen
    /\ ~raised

\* C18: switch_fullscreen flips the flag and calls set_screensaver with the
\* new value of the flag; on a posix system that asks xdg-screensaver once to
\* suspend when the flag is now true and to resume when it is false, and
\* gives xset at most one command; whatever the statuses, the flag is
\* flipped and nothing is raised.  On another system no command is given.
C18_FullscreenScreensaver ==
    LET r == switch_fullscreen(Begin(St))
        cmd == IF r.fullscreen THEN "suspend" ELSE "resume"
    IN  /\ r.fullscreen = ~fullscreen
        /\ r = set_screensaver([Begin(St) EXCEPT !.fullscreen = ~fullscreen],
                               ~fullscreen)
        /\ ~r.raised
        /\ os_name # "posix" => r.os_calls = <<>>
        /\ os_name = "posix" =>
              /\ r.os_calls # <<>>
              /\ r.os_calls[1] = <<"xdg-screensaver", cmd>>
              /\ \A c \in Commands :
                    Cardinality({i \in 1..Len(r.os_calls) : r.os_calls[i][1] = c})
                        <= 1
              /\ os_status["xdg-screensaver"] = 0 => r.os_screensaver = cmd
              /\ os_status["xdg-screensaver"] # 0 =>
                    r.os_screensaver = os_screensaver

\* fullscreen was entered while both commands fail: the flag is set, the
\* screensaver and DPMS are as they were
C18_Witness ==
    /\ fullscreen
    /\ ~raised
    /\ os_calls = << <<"xdg-screensaver", "suspend">>, <<"xset", "-dpms">> >>
    /\ os_status = [c \in Commands |-> 1]
    /\ os_screensaver = "resume"
    /\ os_dpms = "Enabled"

\* C19: one periodic timeout is registered at startup and stays registered:
\* update_time returns True whether the timer is paused or runs, and the
\* calls of update_time made by switch_pause and reset_timer neither remove
\* the timeout nor add one; whenever the clock has passed the last tick, the
\* tick can fire and eventually does.
C19_TickRearms ==
    /\ [](timers = 1)
    /\ [](\A b \in BOOLEAN : update_time_returns([St EXCEPT !.paused = b]))
    /\ [](/\ switch_pause(Begin(St)).timers = 1
          /\ reset_timer(Begin(St)).timers = 1
          /\ timeout_fires(Begin(St)).timers = 1)
    /\ [](last_tick < now => ENABLED Tick)
    /\ (last_tick < now) ~> (last_tick = now)

\* the tick has fired on a running timer after the pause and reset handlers
\* called update_time themselves
C19_Witness ==
    /\ timers = 1
    /\ last_tick = now
    /\ now > Epoch + DigitTimeout
    /\ ~paused
    /\ start_time > Epoch
    /\ delta = now - start_time
    /\ delta > 0

\* C20: a click on a widget calls goto with the destination of the link the
\* document reports at the point, and calls no goto when it reports none; a
\* pointer move calls no goto and leaves the widget's pointer a hand when
\* there is a link at the point and the default pointer when there is none;
\* the other widgets' pointers are left alone.
C20_LinkHitTesting ==
    \A w \in Widgets :
        window[w] # None =>
            \A x \in 0..(window[w][1] - 1), y \in 0..(window[w][2] - 1) :
                LET link == doc_get_link_at(St, cur_page, x, window[w][1],
                                            y, window[w][2])
                    click == on_link(Begin(St), w,
                                [type |-> "BUTTON_PRESS", x |-> x, y |-> y])
                    move == on_link(Begin(St), w,
                                [type |-> "MOTION_NOTIFY", x |-> x, y |-> y])
                IN  /\ ~click.raised /\ ~move.raised
                    /\ click.goto_args =
                          IF link # None THEN <<link[1]>> ELSE <<>>
                    /\ link = None => click.cur_page = cur_page
                    /\ click.cursor = cursor
                    /\ move.goto_args = <<>>
                    /\ move.cur_page = cur_page
                    /\ \A v \in Widgets : move.drawn[v] = {}
                    /\ move.cursor[w] =
                          IF link # None THEN "HAND2" ELSE "default"
                    /\ \A v \in Widgets \ {w} : move.cursor[v] = cursor[v]

\* the pointer was moved over a link of the first page on one widget, and
\* the click on it went to the second page
C20_Witness ==
    /\ \E w \in Widgets : cursor[w] = "HAND2"
    /\ \E w \in Widgets : cursor[w] = "default"
    /\ goto_args # <<>>
    /\ goto_args[1] = links[0][1]
    /\ cur_page = 1
    /\ PageChanged

\* C21: a redraw of a realized widget that finds the current page in the
\* widget's cache draws the cached pixbuf and renders nothing; a redraw that
\* misses renders the page once, on that widget, and stores what it drew under
\* (widget, page) without touching any other entry; and a second redraw of
\* the same widget and page, with nothing in between, renders nothing and
\* draws the same pixbuf. Whatever a handler rendered is in the cache when
\* the handler ends.
C21_RenderOncePerEntry ==
    /\ \A w \in Widgets :
          window[w] # None =>
             LET cached == cur_page \in DOMAIN pixbuf_cache[w]
                 r1 == on_expose(Begin(St), w)
                 r2 == on_expose(Begin(r1), w)
             IN  /\ ~r1.raised /\ ~r2.raised
                 /\ cached =>
                       /\ r1.rendered = {}
                       /\ r1.drawn[w] = {pixbuf_cache[w][cur_page]}
                       /\ r1.pixbuf_cache = pixbuf_cache
                 /\ ~cached =>
                       /\ r1.rendered = {<<w, cur_page>>}
                       /\ DOMAIN r1.pixbuf_cache[w] =
                             DOMAIN pixbuf_cache[w] \cup {cur_page}
                       /\ r1.drawn[w] = {r1.pixbuf_cache[w][cur_page]}
                       /\ \A p \in DOMAIN pixbuf_cache[w] :
                             r1.pixbuf_cache[w][p] = pixbuf_cache[w][p]
                       /\ \A v \in Widgets \ {w} :
                             r1.pixbuf_cache[v] = pixbuf_cache[v]
                 /\ r2.rendered = {}
                 /\ r2.drawn[w] = r1.drawn[w]
                 /\ r2.pixbuf_cache = r1.pixbuf_cache
    /\ \A x \in rendered : x[2] \in DOMAIN pixbuf_cache[x[1]]

\* a single redraw found the page cached and drew it without rendering
C21_Witness ==
    \E w \in Widgets :
        /\ calls = << <<"on_expose", w>> >>
        /\ drawn[w] # {}
        /\ rendered = {}
        /\ cur_page \in DOMAIN pixbuf_cache[w]

\* the calls c of one page change to page cur: the three redraws first, then
\* only prefetch requests, which climb one by one from cur + 1 and then
\* descend one by one from cur
RedrawThenPrefetch(c, cur) ==
    /\ Len(c) >= 3
    /\ {c[i] : i \in 1..3} = {<<"on_expose", w>> : w \in Widgets}
    /\ \A i \in 4..Len(c) : c[i][1] = "prerender"
    /\ \E k \in 0..(Len(c) - 3) :
          /\ \A i \in 1..k : c[3 + i][2] = cur + i
          /\ \A i \in (k + 1)..(Len(c) - 3) : c[3 + i][2] = cur - (i - k - 1)

\* C22: on every page change the content, current-slide and next-slide
\* widgets are all redrawn before the first prefetch request is issued, and
\* the prefetch requests go to the pages after the new page in increasing
\* order and then to the pages before it in decreasing order.
C22_RedrawPrecedesPrefetch ==
    [][cur_page' # cur_page =>
          /\ RedrawThenPrefetch(calls', cur_page')
          /\ \A w \in Widgets : drawn'[w] # {}
          /\ prerendered' = [i \in 1..(Len(calls') - 3) |-> calls'[3 + i][2]]
          /\ Len(calls') > 3]_vars

\* a page change in the middle of the document redrew the three widgets and
\* then asked for pages on both sides
C22_Witness ==
    /\ cur_page = 3
    /\ Len(calls) = 9
    /\ calls[3] = <<"on_expose", "p_da_next">>
    /\ calls[4] = <<"prerender", 4>>
    /\ calls[7] = <<"prerender", 7>>
    /\ calls[9] = <<"prerender", 2>>

\* C23: a configure event or a change of type on one widget removes no cache
\* entry of the other two widgets, and a configure event with the size the
\* cache already has, or a change to the type the widget already has,
\* removes no entry at all; on every step a widget whose size and type stay
\* the same keeps every entry it had.
C23_InvalidationPerSurface ==
    /\ [][\A w \in Widgets :
            (window'[w] = window[w] /\ pixbuf_type'[w] = pixbuf_type[w]) =>
                \A p \in DOMAIN pixbuf_cache[w] :
                    /\ p \in DOMAIN pixbuf_cache'[w]
                    /\ pixbuf_cache'[w][p] = pixbuf_cache[w][p]]_vars
    /\ [](\A w \in Widgets :
            /\ \A size \in Sizes :
                  LET r == on_configure(Begin(St), w, size[1], size[2])
                  IN  /\ \A v \in Widgets \ {w} :
                            r.pixbuf_cache[v] = pixbuf_cache[v]
                      /\ pixbuf_size[w] = size =>
                            r.pixbuf_cache = pixbuf_cache
            /\ \A t \in {PDF_REGULAR, PDF_CONTENT_PAGE, PDF_NOTES_PAGE} :
                  LET r == cache_set_widget_type(St, w, t)
                  IN  /\ \A v \in Widgets \ {w} :
                            r.pixbuf_cache[v] = pixbuf_cache[v]
                      /\ pixbuf_type[w] = t =>
                            r.pixbuf_cache = pixbuf_cache)

\* one widget was resized after all three had been drawn: it lost its
\* entries and the other two kept theirs
C23_Witness ==
    \E w \in Widgets :
        /\ calls = <<>>
        /\ screen[w] # {}
        /\ pixbuf_cache[w] = <<>>
        /\ \A v \in Widgets \ {w} : cur_page \in DOMAIN pixbuf_cache[v]

PageLabel(p, n) == format_d(p + 1) \o <<"/">> \o format_d(n)

\* C25: after every page change the current-page display holds the label and
\* not the entry, and the label reads current_page + 1 over the number of
\* pages: on every step that changes the page, and, with the entry open in
\* any reachable state, after a goto to any other page (which is what keys,
\* scrolling, digit jumps and links call), after a page change signalled by
\* the document and after a notes-mode toggle.
C25_PageChangeClosesEntry ==
    /\ [][cur_page' # cur_page =>
            /\ eb_child' = "label_cur"
            /\ label_cur' = PageLabel(cur_page', nb_pages)]_vars
    /\ [](LET open == Begin([St EXCEPT !.eb_child = "entry_cur"])
              Closed(r) == /\ r.eb_child = "label_cur"
                           /\ r.label_cur = PageLabel(r.cur_page, nb_pages)
                           /\ ~r.raised
          IN  /\ \A n \in -1..nb_pages :
                    LET r == doc_goto(open, n)
                    IN  r.cur_page # cur_page => Closed(r)
              /\ \A key \in NavKeys :
                    LET r == press(open, key, now)
                    IN  r.cur_page # cur_page => Closed(r)
              /\ \A unpause \in BOOLEAN : Closed(on_page_change(open, unpause))
              /\ Closed(switch_mode(open)))
    /\ [](PageLabel(0, 2) = <<"1", "/", "2">>
          /\ PageLabel(11, 123) = <<"1", "2", "/", "1", "2", "3">>)

\* the entry was opened on the first page of two and, with its text
\* untouched, the second page was reached: the label is back and reads 2/2
C25_Witness ==
    /\ entry_text = <<"1", "/", "2">>
    /\ cur_page = 1
    /\ Len(calls) > 3
    /\ eb_child = "label_cur"
    /\ label_cur = <<"2", "/", "2">>

\* C26: dpms_was_enabled is never read before it is assigned: fullscreen is
\* false at the start, whenever it is true on a posix system the attribute
\* has a value, and no handler ends with an exception. Entering fullscreen
\* assigns it whether "xset q" reported DPMS enabled, nothing changes it
\* while the window stays fullscreen, and leaving fullscreen runs
\* "xset +dpms" exactly when it holds True.
C26_DpmsWrittenBeforeRead ==
    /\ ~fullscreen
    /\ [](/\ ~raised
          /\ (fullscreen /\ os_name = "posix") => dpms_was_enabled # None
          /\ LET r == switch_fullscreen(Begin(St))
                 enable == \E i \in 1..Len(r.os_calls) :
                              r.os_calls[i] = <<"xset", "+dpms">>
             IN  /\ ~r.raised
                 /\ os_name # "posix" =>
                       r.dpms_was_enabled = dpms_was_enabled /\ ~enable
                 /\ (os_name = "posix" /\ ~fullscreen) =>
                       /\ r.dpms_was_enabled = <<os_dpms = "Enabled">>
                       /\ ~enable
                 /\ (os_name = "posix" /\ fullscreen) =>
                       /\ r.dpms_was_enabled = dpms_was_enabled
                       /\ enable <=> dpms_was_enabled = <<TRUE>>)
    /\ [][/\ (fullscreen /\ fullscreen') =>
                dpms_was_enabled' = dpms_was_enabled
          /\ (fullscreen /\ ~fullscreen' /\ os_name = "posix") =>
                ((\E i \in 1..Len(os_calls') :
                     os_calls'[i] = <<"xset", "+dpms">>)
                  <=> dpms_was_enabled = <<TRUE>>)]_vars

\* fullscreen was entered with DPMS disabled and left again: the remembered
\* state is False and leaving did not run "xset +dpms"
C26_Witness ==
    /\ ~fullscreen
    /\ ~raised
    /\ dpms_was_enabled = <<FALSE>>
    /\ os_calls = << <<"xdg-screensaver", "resume">> >>
    /\ os_dpms = "Disabled"

====
